---- MODULE Spec2Model ----
(***************************************************************************)
(* denokv_lmdb: the key/value codec (LmdbDKvKey, LmdbDKvValue) and the     *)
(* range read engine (LmdbDatabase::snapshot_read) of src/src/lib.rs.      *)
(*                                                                         *)
(* A byte is a number in 0..255 and a byte string a sequence of bytes.     *)
(* A u64 is kept as four 16-bit limbs, most significant first, so that     *)
(* to_le_bytes / from_le_bytes are computed over the whole 64-bit range    *)
(* without leaving the integers the model checker can represent.           *)
(***************************************************************************)
EXTENDS Integers, Sequences, FiniteSets

VARIABLES
    \* ---- codec harness: one value, buffer or key pair pushed through the codec
    cpc,        \* "off" | "value" | "bytes" | "keys" | "encoded" | "decoded" | "keysEncoded" | "keysDecoded"
    cval,       \* the KvValue handed to bytes_encode
    cbuf,       \* the byte buffer handed to bytes_decode
    cdec,       \* what bytes_decode produced
    ckeys,      \* a pair of keys
    ckenc,      \* their encodings
    ckdec,      \* the decodings of their encodings
    \* ---- database
    table,      \* the single LMDB table: key bytes -> stored value bytes
    nextTxn,    \* the id the environment gives the next transaction
    openTxns,   \* ids of the read transactions open in the environment
    commits,    \* number of write transactions committed so far
    pc,         \* per caller: "idle" | "created" | "running" | "returned" | "panicked" | "dropped"
    nreq,       \* per caller: length of the `requests` vector
    txn,        \* per caller: the read transaction of the call (NoTxn when none)
    res,        \* per caller: the local `res` vector
    ret,        \* per caller: what the call returned
    served,     \* per caller (history): the requests consumed by the loop, in order
    seen,       \* per caller (history): per request, the table state its cursor read (view)
                \* and whether the table had changed since read_txn() by then (stale)
    begun,      \* per caller (history): the table when read_txn() returned
    opened,     \* per caller (history): number of read transactions the call began
    engineErr   \* per caller (history): an engine operation of the call failed

codecVars == <<cpc, cval, cbuf, cdec, ckeys, ckenc, ckdec>>
dbVars == <<table, commits, nextTxn, openTxns, pc, nreq, txn, res, ret,
            served, seen, begun, opened, engineErr>>
vars == <<codecVars, dbVars>>

\* ------------------------------------------------------------------ bounds

MaxBlobLen == 2     \* longest blob / raw buffer payload enumerated
MaxKeyLen == 2      \* longest key enumerated by the codec harness
MaxBatch == 2       \* longest `requests` vector
MaxFaults == 1      \* engine cursor failures injected per range request
MaxCommits == 1     \* write transactions committed by other users of the environment

\* ------------------------------------------------------------- byte strings

ByteSample == {0, 1, 2, 7, 255}
KeyByteSample == {0, 1, 255}

RECURSIVE SeqsUpTo(_, _)
SeqsUpTo(S, n) ==
    IF n = 0 THEN {<<>>}
    ELSE LET shorter == SeqsUpTo(S, n - 1)
         IN shorter \cup {Append(s, b) : s \in {t \in shorter : Len(t) = n - 1}, b \in S}

\* Unsigned byte-wise lexicographic order (memcmp, then the shorter first).
RECURSIVE LexLess(_, _)
LexLess(a, b) ==
    IF Len(b) = 0 THEN FALSE
    ELSE IF Len(a) = 0 THEN TRUE
    ELSE IF a[1] < b[1] THEN TRUE
    ELSE IF a[1] > b[1] THEN FALSE
    ELSE LexLess(Tail(a), Tail(b))

\* -------------------------------------------------------------------- codec

TagU64 == 0
TagBytes == 1
TagV8 == 2
U64Bytes == 8

U64(n) == [variant |-> "U64", num |-> n]
Bytes(b) == [variant |-> "Bytes", blob |-> b]
V8(b) == [variant |-> "V8", blob |-> b]

Ok(v) == [kind |-> "Ok", value |-> v]
Panic == [kind |-> "panic"]

\* u64::to_le_bytes: byte i (from 0) is bits 8i..8i+7.
to_le_bytes(n) ==
    [i \in 1..U64Bytes |->
        LET limb == n[4 - ((i - 1) \div 2)]
        IN IF (i - 1) % 2 = 0 THEN limb % 256 ELSE limb \div 256]

\* u64::from_le_bytes of an 8-byte array.
from_le_bytes(b) ==
    [j \in 1..4 |-> b[2 * (4 - j) + 1] + 256 * b[2 * (4 - j) + 2]]

\* Vec::new() followed by extend_from_slice(bytes).
RECURSIVE extend_from_slice(_, _)
extend_from_slice(vec, bytes) ==
    IF bytes = <<>> THEN vec
    ELSE extend_from_slice(Append(vec, Head(bytes)), Tail(bytes))

LmdbDKvKey_bytes_decode(bytes) == Ok(extend_from_slice(<<>>, bytes))

\* Mutant: the key is written behind a length byte.
bytes_encode_length_prefixed(item) == Ok(<<Len(item)>> \o extend_from_slice(<<>>, item))

LmdbDKvKey_bytes_encode(item) == Ok(extend_from_slice(<<>>, item))

\* Mutant: a tag above 2 is rejected.
bytes_decode_strict(bytes) ==
    LET vec == extend_from_slice(<<>>, bytes)
    IN IF Len(vec) < 1 THEN Panic
       ELSE LET list == SubSeq(vec, 2, Len(vec))
            IN IF vec[1] = TagU64
               THEN IF Len(list) = U64Bytes
                    THEN Ok(U64(from_le_bytes(list)))
                    ELSE Panic
               ELSE IF vec[1] = TagBytes
               THEN Ok(Bytes(list))
               ELSE IF vec[1] = TagV8
               THEN Ok(V8(list))
               ELSE [kind |-> "Err", error |-> "FormatError"]

LmdbDKvValue_bytes_decode(bytes) ==
    LET vec == extend_from_slice(<<>>, bytes)
    IN IF Len(vec) < 1 THEN Panic                     \* split_at(1): mid > len
       ELSE LET list == SubSeq(vec, 2, Len(vec))
            IN IF vec[1] = TagU64
               THEN IF Len(list) = U64Bytes
                    THEN Ok(U64(from_le_bytes(list)))
                    ELSE Panic                         \* try_into().expect(..)
               ELSE IF vec[1] = TagBytes
               THEN Ok(Bytes(list))
               ELSE Ok(V8(list))

\* Mutant: the tags of the two blob variants are exchanged.
bytes_encode_swapped_tags(item) ==
    LET tag == IF item.variant = "V8" THEN TagBytes
               ELSE IF item.variant = "Bytes" THEN TagV8
               ELSE TagU64
        contents == IF item.variant \in {"V8", "Bytes"} THEN item.blob
                    ELSE to_le_bytes(item.num)
    IN Ok(<<tag>> \o contents)

LmdbDKvValue_bytes_encode(item) ==
    LET tag == IF item.variant = "V8" THEN TagV8
               ELSE IF item.variant = "Bytes" THEN TagBytes
               ELSE TagU64
        contents == IF item.variant \in {"V8", "Bytes"} THEN item.blob
                    ELSE to_le_bytes(item.num)
    IN Ok(<<tag>> \o contents)

\* ------------------------------------------------------------ codec inputs

LimbSample == {0, 1, 258, 65535}
U64Sample == {<<a, 0, b, c>> : a \in {0, 65535}, b \in {0, 513}, c \in LimbSample}
BlobSample == SeqsUpTo(ByteSample, MaxBlobLen)
ValueSample ==
    {U64(n) : n \in U64Sample} \cup {Bytes(b) : b \in BlobSample}
        \cup {V8(b) : b \in BlobSample}
\* Raw buffers: every short buffer, every tag in front of an 8-byte payload,
\* and tag 0 in front of a 7- and a 9-byte payload.
BufferSample ==
    SeqsUpTo(ByteSample, MaxBlobLen + 1)
        \cup {<<t>> \o to_le_bytes(n) : t \in ByteSample, n \in {<<0, 0, 0, 258>>, <<65535, 0, 513, 1>>}}
        \cup {<<TagU64>> \o SubSeq(to_le_bytes(<<1, 2, 3, 4>>), 1, 7),
              <<TagU64>> \o to_le_bytes(<<1, 2, 3, 4>>) \o <<0>>}
KeySample == SeqsUpTo(KeyByteSample, MaxKeyLen)

NoValue == [variant |-> "none"]
NoResult == [kind |-> "none"]

Err(e) == [kind |-> "Err", error |-> e]

\* ------------------------------------------------------------ codec harness

CodecIdle ==
    /\ cpc = "off" /\ cval = NoValue /\ cbuf = <<>> /\ cdec = NoResult
    /\ ckeys = <<>> /\ ckenc = <<>> /\ ckdec = <<>>

EncodeValue ==
    /\ cpc = "value"
    /\ cbuf' = LmdbDKvValue_bytes_encode(cval).value
    /\ cpc' = "encoded"
    /\ UNCHANGED <<cval, cdec, ckeys, ckenc, ckdec, dbVars>>

DecodeValue ==
    /\ cpc \in {"bytes", "encoded"}
    /\ cdec' = LmdbDKvValue_bytes_decode(cbuf)
    /\ cpc' = IF cpc = "encoded" THEN "roundtrip" ELSE "decoded"
    /\ UNCHANGED <<cval, cbuf, ckeys, ckenc, ckdec, dbVars>>

EncodeKeys ==
    /\ cpc = "keys"
    /\ ckenc' = [i \in 1..2 |-> LmdbDKvKey_bytes_encode(ckeys[i]).value]
    /\ cpc' = "keysEncoded"
    /\ UNCHANGED <<cval, cbuf, cdec, ckeys, ckdec, dbVars>>

DecodeKeys ==
    /\ cpc = "keysEncoded"
    /\ ckdec' = [i \in 1..2 |-> LmdbDKvKey_bytes_decode(ckenc[i]).value]
    /\ cpc' = "keysDecoded"
    /\ UNCHANGED <<cval, cbuf, cdec, ckeys, ckenc, dbVars>>

\* ----------------------------------------------------------------- database

Callers == {1, 2}
TableKeys == {<<1>>, <<1, 1>>, <<2>>}
RangeBounds == {<<1, 1>>, <<2>>, <<3>>}
\* Stored value bytes: a u64 envelope, an empty Bytes blob, and two envelopes
\* that do not decode (tag 0 with a 1-byte payload; no tag byte at all).
StoredSample ==
    {<<TagU64>> \o to_le_bytes(<<0, 0, 1, 258>>), <<TagBytes>>, <<TagU64, 9>>}
VersionstampLen == 10

ReadRange(start, end, reverse) == [start |-> start, end |-> end, reverse |-> reverse]
AllRequests == {ReadRange(s, e, r) : s \in RangeBounds, e \in RangeBounds, r \in BOOLEAN}

NoTxn == [id |-> 0, snap |-> <<>>]
EmptyTable == [k \in {} |-> <<>>]
FullTable == [k \in TableKeys |-> <<TagBytes>>]

DbInit(tables) ==
    /\ table \in tables /\ commits = 0 /\ nextTxn = 1 /\ openTxns = {}
    /\ pc = [c \in Callers |-> "idle"]
    /\ nreq = [c \in Callers |-> 0]
    /\ txn = [c \in Callers |-> NoTxn]
    /\ res = [c \in Callers |-> <<>>]
    /\ ret = [c \in Callers |-> NoResult]
    /\ served = [c \in Callers |-> <<>>]
    /\ seen = [c \in Callers |-> <<>>]
    /\ begun = [c \in Callers |-> EmptyTable]
    /\ opened = [c \in Callers |-> 0]
    /\ engineErr = [c \in Callers |-> FALSE]

\* ---- the engine, as the calls of snapshot_read use it

\* The keys of a table state in the engine's (B+tree) order.
RECURSIVE SortedKeys(_)
SortedKeys(K) ==
    IF K = {} THEN <<>>
    ELSE LET m == CHOOSE k \in K : \A o \in K \ {k} : LexLess(k, o)
         IN <<m>> \o SortedKeys(K \ {m})

\* Index of the first key >= bound (MDB_SET_RANGE), Len(keys) + 1 when none.
RECURSIVE SetRange(_, _, _)
SetRange(keys, bound, i) ==
    IF i > Len(keys) THEN i
    ELSE IF ~LexLess(keys[i], bound) THEN i
    ELSE SetRange(keys, bound, i + 1)

RECURSIVE WalkNext(_, _, _)
WalkNext(keys, i, end) ==
    IF i > Len(keys) \/ ~LexLess(keys[i], end) THEN <<>>
    ELSE <<keys[i]>> \o WalkNext(keys, i + 1, end)

RECURSIVE WalkPrev(_, _, _)
WalkPrev(keys, i, start) ==
    IF i < 1 \/ LexLess(keys[i], start) THEN <<>>
    ELSE <<keys[i]>> \o WalkPrev(keys, i - 1, start)

\* db.range(&txn, &(&start..&end)): from the first key >= start, forward,
\* while key < end.
range(snap, start, end) ==
    LET keys == SortedKeys(DOMAIN snap)
    IN WalkNext(keys, SetRange(keys, LmdbDKvKey_bytes_encode(start).value, 1),
                LmdbDKvKey_bytes_encode(end).value)

\* db.rev_range(&txn, &(&start..&end)): from the key before the first key
\* >= end, backward, while key >= start.
rev_range(snap, start, end) ==
    LET keys == SortedKeys(DOMAIN snap)
    IN WalkPrev(keys, SetRange(keys, LmdbDKvKey_bytes_encode(end).value, 1) - 1,
                LmdbDKvKey_bytes_encode(start).value)

\* Mutant: every cursor reads the table as it is when the cursor is opened.
ReadViewLive(c) == table

\* The table state the cursors of caller c read: the snapshot of the one
\* transaction begun before the loop.
ReadView(c) == txn[c].snap

\* What the range iterator yields for the entry at key k: both decoders run;
\* a decoder that returns Err makes the item Err(Decoding), one that panics
\* unwinds the call.
DecodeItem(snap, k) ==
    LET kd == LmdbDKvKey_bytes_decode(k)
        vd == LmdbDKvValue_bytes_decode(snap[k])
    IN IF kd.kind = "panic" \/ vd.kind = "panic" THEN Panic
       ELSE IF kd.kind = "Ok" /\ vd.kind = "Ok" THEN Ok(<<kd.value, vd.value>>)
       ELSE Err("Decoding")

\* The items of the range iterator. At a position in `faults` the cursor
\* operation fails and the item is Err(engine); the following call of next()
\* yields the same entry when the position is in `redeliver`, and the one
\* after it otherwise.
RECURSIVE IterItems(_, _, _, _, _)
IterItems(snap, walk, i, faults, redeliver) ==
    IF i > Len(walk) THEN <<>>
    ELSE (IF i \in faults THEN <<Err("engine")>> ELSE <<>>)
         \o (IF i \in faults \ redeliver THEN <<>> ELSE <<DecodeItem(snap, walk[i])>>)
         \o IterItems(snap, walk, i + 1, faults, redeliver)

\* Iterator::flatten over Result items: an Ok item yields its content, an Err
\* item yields nothing.
flatten(items) == SelectSeq(items, LAMBDA it : it.kind # "Err")

KvEntry(kv) ==
    [key |-> kv[1], value |-> kv[2], versionstamp |-> [i \in 1..VersionstampLen |-> 0]]

\* results.map(|(k, v)| KvEntry {..}).collect()
collect(results) == [i \in 1..Len(results) |-> KvEntry(results[i].value)]

Panics(items) == \E i \in 1..Len(items) : items[i].kind = "panic"

\* Mutant: the transaction stays open when the call ends.
DropTxnLeak(c) == openTxns

\* The environment's open read transactions once caller c's `txn` is dropped.
DropTxn(c) == openTxns \ {txn[c].id}

\* Mutant: the error carries the outputs built so far.
ErrReturnPartial(c, e) == [kind |-> "Err", error |-> e, value |-> res[c]]

\* The value of an early `?` return.
ErrReturn(c, e) == Err(e)

\* ---- snapshot_read, step by step

\* snapshot_read(requests, _) is called: an async fn, so nothing runs yet.
Call(c) ==
    /\ pc[c] = "idle"
    /\ \E n \in 0..MaxBatch : nreq' = [nreq EXCEPT ![c] = n]
    /\ pc' = [pc EXCEPT ![c] = "created"]
    /\ UNCHANGED <<codecVars, table, commits, nextTxn, openTxns, txn, res, ret,
                   served, seen, begun, opened, engineErr>>

\* The future is dropped before it is polled. The body has no await, so
\* this is the only point at which a call can be cancelled.
Cancel(c) ==
    /\ pc[c] = "created"
    /\ pc' = [pc EXCEPT ![c] = "dropped"]
    /\ UNCHANGED <<codecVars, table, commits, nextTxn, openTxns, nreq, txn, res,
                   ret, served, seen, begun, opened, engineErr>>

\* let mut res = Vec::new(); let txn = self.env.read_txn()...?;
Begin(c) ==
    /\ pc[c] = "created"
    /\ \E fails \in BOOLEAN :
        IF fails
        THEN /\ ret' = [ret EXCEPT ![c] = ErrReturn(c, "engine")]
             /\ pc' = [pc EXCEPT ![c] = "returned"]
             /\ engineErr' = [engineErr EXCEPT ![c] = TRUE]
             /\ UNCHANGED <<nextTxn, openTxns, txn, begun, opened>>
        ELSE /\ txn' = [txn EXCEPT ![c] = [id |-> nextTxn, snap |-> table]]
             /\ openTxns' = openTxns \cup {nextTxn}
             /\ nextTxn' = nextTxn + 1
             /\ begun' = [begun EXCEPT ![c] = table]
             /\ opened' = [opened EXCEPT ![c] = @ + 1]
             /\ pc' = [pc EXCEPT ![c] = "running"]
             /\ UNCHANGED <<ret, engineErr>>
    /\ res' = [res EXCEPT ![c] = <<>>]
    /\ UNCHANGED <<codecVars, table, commits, nreq, served, seen>>

\* One iteration of `for req in requests`.
ServeRequest(c, pool, maxFaults) ==
    /\ pc[c] = "running" /\ Len(served[c]) < nreq[c]
    /\ \E req \in pool, openFails \in BOOLEAN :
        LET snap == ReadView(c)
            walk == IF req.reverse THEN rev_range(snap, req.start, req.end)
                    ELSE range(snap, req.start, req.end)
        IN \E faults \in SUBSET (1..Len(walk)) : \E redeliver \in SUBSET faults :
            /\ Cardinality(faults) <= maxFaults
            /\ ~openFails \/ faults = {}
            /\ LET items == IterItems(snap, walk, 1, faults, redeliver)
               IN /\ served' = [served EXCEPT ![c] = Append(@, req)]
                  /\ seen' = [seen EXCEPT ![c] = Append(@, [view |-> snap, stale |-> table # begun[c]])]
                  /\ engineErr' = [engineErr EXCEPT ![c] = @ \/ openFails \/ faults # {}]
                  /\ IF openFails
                     THEN /\ ret' = [ret EXCEPT ![c] = ErrReturn(c, "engine")]
                          /\ pc' = [pc EXCEPT ![c] = "returned"]
                          /\ openTxns' = DropTxn(c)
                          /\ txn' = [txn EXCEPT ![c] = NoTxn]
                          /\ UNCHANGED res
                     ELSE IF Panics(items)
                     THEN /\ ret' = [ret EXCEPT ![c] = Panic]
                          /\ pc' = [pc EXCEPT ![c] = "panicked"]
                          /\ openTxns' = DropTxn(c)
                          /\ txn' = [txn EXCEPT ![c] = NoTxn]
                          /\ UNCHANGED res
                     ELSE /\ res' = [res EXCEPT ![c] =
                                        Append(@, [entries |-> collect(flatten(items))])]
                          /\ UNCHANGED <<ret, pc, openTxns, txn>>
    /\ UNCHANGED <<codecVars, table, commits, nextTxn, nreq, begun, opened>>

\* Ok(res), after the last request.
Return(c) ==
    /\ pc[c] = "running" /\ Len(served[c]) = nreq[c]
    /\ ret' = [ret EXCEPT ![c] = Ok(res[c])]
    /\ pc' = [pc EXCEPT ![c] = "returned"]
    /\ openTxns' = DropTxn(c)
    /\ txn' = [txn EXCEPT ![c] = NoTxn]
    /\ UNCHANGED <<codecVars, table, commits, nextTxn, nreq, res, served, seen,
                   begun, opened, engineErr>>

\* A write transaction of another user of the environment commits: it puts
\* or deletes one key.
Commit ==
    /\ commits < MaxCommits
    /\ commits' = commits + 1
    /\ \E k \in TableKeys :
        \/ \E v \in StoredSample :
              table' = [x \in DOMAIN table \cup {k} |-> IF x = k THEN v ELSE table[x]]
        \/ /\ k \in DOMAIN table
           /\ table' = [x \in DOMAIN table \ {k} |-> table[x]]
    /\ table' # table
    /\ UNCHANGED <<codecVars, nextTxn, openTxns, pc, nreq, txn, res, ret,
                   served, seen, begun, opened, engineErr>>

\* ------------------------------------------------------------ specifications

SnapshotRead(c, pool, maxFaults) ==
    \/ Call(c)
    \/ Cancel(c)
    \/ Begin(c)
    \/ ServeRequest(c, pool, maxFaults)
    \/ Return(c)

RECURSIVE TablesOver(_)
TablesOver(K) ==
    IF K = {} THEN {EmptyTable}
    ELSE LET k == CHOOSE x \in K : TRUE
             rest == TablesOver(K \ {k})
         IN rest \cup {[x \in DOMAIN t \cup {k} |-> IF x = k THEN v ELSE t[x]] :
                          t \in rest, v \in StoredSample}

\* One caller submitting any range request over any stored table, beside
\* writers.
Init == CodecIdle /\ DbInit(TablesOver(TableKeys))

Next == SnapshotRead(1, AllRequests, MaxFaults)

Spec == Init /\ [][Next]_vars

\* Two concurrent callers, beside writers.
ConcInit == CodecIdle /\ DbInit({FullTable})

\* Caller c submits the range [<<1, 1>>, <<3>>), caller 1 forward and caller 2
\* in reverse.
RequestsOf(c) == {ReadRange(<<1, 1>>, <<3>>, c = 2)}

ConcNext ==
    \/ \E c \in Callers : SnapshotRead(c, RequestsOf(c), 0)
    \/ Commit

ConcSpec == ConcInit /\ [][ConcNext]_vars

\* The codec applied to one value, one raw buffer or one pair of keys.
CodecInit ==
    /\ DbInit({EmptyTable})
    /\ cdec = NoResult /\ ckenc = <<>> /\ ckdec = <<>>
    /\ \/ cpc = "value" /\ cval \in ValueSample /\ cbuf = <<>> /\ ckeys = <<>>
       \/ cpc = "bytes" /\ cbuf \in BufferSample /\ cval = NoValue /\ ckeys = <<>>
       \/ cpc = "keys" /\ ckeys \in KeySample \X KeySample /\ cval = NoValue /\ cbuf = <<>>

CodecNext ==
    \/ EncodeValue
    \/ DecodeValue
    \/ EncodeKeys
    \/ DecodeKeys

CodecSpec == CodecInit /\ [][CodecNext]_vars

\* =================================================================== claims

Finished(c) == pc[c] \in {"returned", "panicked"}

\* start <= k < end in unsigned byte-wise lexicographic order.
InRange(k, req) == ~LexLess(k, req.start) /\ LexLess(k, req.end)

Undecodable(bytes) ==
    \/ bytes = <<>>
    \/ bytes[1] = 0 /\ Len(bytes) - 1 # 8

\* `entries` holds exactly the entries of `snap` with a key in the range of
\* `req`, each once, ascending (descending when req.reverse) by key.
ExactRange(entries, snap, req) ==
    /\ {entries[i].key : i \in 1..Len(entries)} = {k \in DOMAIN snap : InRange(k, req)}
    /\ \A i \in 1..Len(entries) - 1 :
          IF req.reverse THEN LexLess(entries[i + 1].key, entries[i].key)
          ELSE LexLess(entries[i].key, entries[i + 1].key)
    /\ \A i \in 1..Len(entries) :
          /\ entries[i].key \in DOMAIN snap
          /\ LmdbDKvValue_bytes_decode(snap[entries[i].key]) = Ok(entries[i].value)

\* C1: a successful snapshot_read returns one output per request, in request
\* order, and the i-th output holds exactly the stored entries with
\* start_i <= key < end_i, each once, ascending (descending when reverse).
C1_RangeResult ==
    \A c \in Callers :
        (pc[c] = "returned" /\ ret[c].kind = "Ok") =>
            /\ Len(ret[c].value) = nreq[c]
            /\ Len(served[c]) = nreq[c]
            /\ \A i \in 1..Len(ret[c].value) :
                  ExactRange(ret[c].value[i].entries, begun[c], served[c][i])

\* C1 on the calls during which no engine operation failed.
RangeResultWithoutEngineError ==
    \A c \in Callers :
        (pc[c] = "returned" /\ ret[c].kind = "Ok" /\ ~engineErr[c]) =>
            /\ Len(ret[c].value) = nreq[c]
            /\ \A i \in 1..Len(ret[c].value) :
                  ExactRange(ret[c].value[i].entries, begun[c], served[c][i])

\* C2: every request of a batch reads the table as it was when the batch's
\* read transaction began: a later commit shows in no output, and every
\* request reads the same state.
C2_SameSnapshot ==
    \A c \in Callers :
        /\ \A i \in 1..Len(seen[c]) : seen[c][i].view = begun[c]
        /\ \A i \in 1..Len(res[c]) : \A j \in 1..Len(res[c][i].entries) :
              LET e == res[c][i].entries[j]
              IN /\ e.key \in DOMAIN begun[c]
                 /\ LmdbDKvValue_bytes_decode(begun[c][e.key]) = Ok(e.value)
        /\ ret[c].kind = "Ok" => ret[c].value = res[c]

\* A batch of two requests returned entries; a write committed after the
\* first request was served and before the second was, and both outputs hold
\* the entries of the table as it was when the transaction began.
C2_Witness ==
    \E c \in Callers :
        /\ pc[c] = "returned" /\ ret[c].kind = "Ok" /\ Len(ret[c].value) = 2
        /\ ~seen[c][1].stale /\ seen[c][2].stale
        /\ Len(ret[c].value[1].entries) = 2
        /\ ret[c].value[2] = ret[c].value[1]

\* C3: decode_value(encode_value(v)) = v for every value of the three variants.
C3_RoundTrip == cpc = "roundtrip" => cdec = Ok(cval)

C3_Witness ==
    /\ cpc = "roundtrip" /\ cval.variant = "Bytes" /\ cval.blob = <<>>
    /\ cdec = Ok(Bytes(<<>>))

\* C4: when a stored entry in a requested range has value bytes that do not
\* decode, snapshot_read returns an error.
C4_DecodeFailureReported ==
    \A c \in Callers :
        (/\ Finished(c)
         /\ \E i \in 1..Len(served[c]) : \E k \in DOMAIN begun[c] :
               InRange(k, served[c][i]) /\ Undecodable(begun[c][k]))
        => ret[c].kind = "Err"

\* C5: decode_value returns a FormatError for the empty buffer and for tag 0
\* with a payload that is not 8 bytes long.
C5_MalformedIsFormatError ==
    (cpc = "decoded" /\ Undecodable(cbuf)) => cdec.kind = "Err"

\* C6: a call that returns after one of its engine operations failed returns
\* an error.
C6_EngineErrorSurfaced ==
    \A c \in Callers : (pc[c] = "returned" /\ engineErr[c]) => ret[c].kind = "Err"

\* C7: a non-empty envelope whose tag is neither 0 nor 1 decodes to a
\* Serialized (V8) value of the bytes after the tag, and tag 1 to a Bytes
\* value of them.
C7_TagDefault ==
    (cpc = "decoded" /\ Len(cbuf) >= 1) =>
        /\ cbuf[1] \notin {0, 1} => cdec = Ok(V8(Tail(cbuf)))
        /\ cbuf[1] = 1 => cdec = Ok(Bytes(Tail(cbuf)))

C7_Witness ==
    cpc = "decoded" /\ cbuf = <<7, 255, 0>> /\ cdec = Ok(V8(<<255, 0>>))

\* C8: encode_key and decode_key are the identity, so encoded keys compare
\* as the keys do.
C8_KeyIdentity ==
    /\ cpc \in {"keysEncoded", "keysDecoded"} =>
          /\ ckenc = ckeys
          /\ LexLess(ckeys[1], ckeys[2]) <=> LexLess(ckenc[1], ckenc[2])
    /\ cpc = "keysDecoded" => ckdec = ckeys

C8_Witness ==
    /\ cpc = "keysDecoded" /\ ckeys = <<<<1>>, <<0, 255>>>>
    /\ ckdec = ckeys /\ LexLess(ckenc[2], ckenc[1])

\* C9: a call begins at most one read transaction, of its own; the
\* transaction is open exactly while the call runs, so the environment's
\* open transactions are those of the running calls, one each.
C9_TxnScoped ==
    /\ \A c \in Callers :
          /\ opened[c] <= 1
          /\ pc[c] = "running" => opened[c] = 1 /\ txn[c] # NoTxn /\ txn[c].id \in openTxns
          /\ pc[c] # "running" => txn[c] = NoTxn
          /\ (Finished(c) /\ ret[c].kind # "Err") => opened[c] = 1
    /\ openTxns = {txn[c].id : c \in {x \in Callers : pc[x] = "running"}}
    /\ \A c, d \in Callers :
          (c # d /\ pc[c] = "running" /\ pc[d] = "running") => txn[c].id # txn[d].id

\* One call panicked in a decoder, the other returned the error of a range
\* cursor that could not be opened; each had begun its transaction.
C9_Witness ==
    /\ pc[1] = "panicked" /\ opened[1] = 1
    /\ pc[2] = "returned" /\ ret[2].kind = "Err" /\ opened[2] = 1
    /\ openTxns = {}

\* C10: no step of snapshot_read changes the stored table, and an error
\* return carries none of the outputs already built.
C10_ReadOnly ==
    [][(pc' # pc \/ res' # res \/ ret' # ret) =>
          /\ table' = table
          /\ \A c \in Callers : ret'[c].kind = "Err" => ret'[c] = Err("engine")]_vars

\* A call returned an error after it had served a request with entries.
C10_Witness ==
    \E c \in Callers :
        /\ pc[c] = "returned" /\ ret[c].kind = "Err"
        /\ Len(res[c]) >= 1 /\ Len(res[c][1].entries) >= 1
        /\ table # begun[c]

====
